---- MODULE Spec2Model ----
(***************************************************************************)
(* Model of the create_commit pipeline of github-mcp-server                *)
(* (GitHubHandlers.handleCreateCommit, src/src/tools/handlers.ts) together *)
(* with the helpers it calls (isValidCreateCommitArgs, getGitConfigOwner,  *)
(* detectCurrentBranch) and the remote git database it talks to, the       *)
(* start of the process, the dispatch of a call-tool request to its        *)
(* handler, and the push and pull handlers.                                *)
(*                                                                         *)
(* One invocation is a sequence of steps separated by the handler's        *)
(* awaits; every remote call is one atomic step at the remote (it is       *)
(* applied and answered, or it is rejected without effect).  Several       *)
(* invocations interleave at their awaits.                                 *)
(***************************************************************************)
EXTENDS Integers, Sequences, FiniteSets, TLC

\* ---------------------------------------------------------------- bounds
NumInv == 2        \* create_commit invocations in one behaviour
MaxFiles == 2      \* longest files list an invocation is given
MaxPush == 1       \* pushes by a writer other than this server

Invs == 1..NumInv

\* ------------------------------------------------------------ JS values
Undefined == "<undefined>"                 \* an absent optional argument
Null == "<null>"
Truthy(v) == v # Undefined /\ v # Null /\ v # ""   \* JS truthiness of string|null|undefined
IsString(v) == v # Undefined               \* typeof v === "string"

NoSha == 0                                 \* a response without a usable sha
FailedUpload == NoSha - 1                  \* the mark of a createBlob call that was rejected
NullFile == [null |-> TRUE]                \* a null entry of the files array
NoError == <<>>
NoResult == [status |-> "none"]

\* ------------------------------------------------------ remote universe
RepoOwner == "octo"                        \* the one account that has a repository "r"
Login == "octo"                            \* login of the authenticated principal
DefaultBranch == "dev"                     \* default_branch declared by octo/r
Branches == {"main", "dev"}                \* branches of octo/r
PathSeq == <<"a.txt", "b.txt">>
ContentSeq == <<"hello", "world">>
Paths == {PathSeq[k] : k \in 1..Len(PathSeq)}
Contents == {ContentSeq[k] : k \in 1..Len(ContentSeq)}
NoFile == "<absent>"
FileChanges == [path : Paths, content : Contents]

IndexOf(seq, x) == CHOOSE k \in 1..Len(seq) : seq[k] = x

\* Content-addressed identifiers: the sha of a blob is a function of its
\* content, the sha of a tree a function of its path -> content mapping.
BlobSha(content) == 100 + IndexOf(ContentSeq, content)
BlobContent(sha) == ContentSeq[sha - 100]

AllTrees == [Paths -> Contents \cup {NoFile}]
RECURSIVE TreeCode(_, _)
TreeCode(t, k) ==
    IF k = 0 THEN 0
    ELSE (IF t[PathSeq[k]] = NoFile THEN 0 ELSE IndexOf(ContentSeq, t[PathSeq[k]]))
         + (Len(ContentSeq) + 1) * TreeCode(t, k - 1)
TreeSha(t) == 1000 + TreeCode(t, Len(PathSeq))
TreeOf(sha) == CHOOSE t \in AllTrees : TreeSha(t) = sha

InitialTree == [p \in Paths |-> IF p = "a.txt" THEN "world" ELSE NoFile]

\* POST /git/trees with base_tree: the entries are laid over the base in
\* order, so a later entry for the same path wins.
RECURSIVE LayerEntries(_, _)
LayerEntries(t, entries) ==
    IF entries = <<>> THEN t
    ELSE LayerEntries([t EXCEPT ![Head(entries).path] = BlobContent(Head(entries).sha)],
                      Tail(entries))

\* ------------------------------------------------------- error messages
\* An McpError is modelled by its message, a sequence of text parts; a
\* handler that wraps an error puts its own text in front of the message of
\* the error it caught.
InvalidArgsMsg == <<"Invalid arguments for create_commit: requires repo, message, and files array">>
OwnerMsg == <<"Failed to determine repository owner. Please provide owner explicitly.">>
InvalidRefMsg(b) == <<"Invalid reference data received for branch '", b, "'. The branch may not exist.">>
InvalidCommitMsg == <<"Invalid commit data received. Unable to access the commit tree.">>
GetRefFailedMsg(cause) ==
    <<"Failed to get branch reference: ">> \o cause
        \o <<". Please verify the repository and branch exist.">>
BlobsFailedMsg(cause) == <<"Failed to create file blobs: ">> \o cause
NoBlobsMsg == <<"No valid file blobs were created. Please check the file contents.">>
InvalidTreeMsg == <<"Failed to create a valid tree structure.">>
InvalidNewCommitMsg == <<"Failed to create a valid commit. The commit data is invalid.">>
CreateCommitFailedMsg(cause) == <<"Failed to create commit: ">> \o cause
UpdateRefFailedMsg(cause) == <<"Failed to update branch reference: ">> \o cause

InvalidPushArgsMsg == <<"Invalid arguments for push">>
InvalidPullArgsMsg == <<"Invalid arguments for pull">>
PullFailedMsg(cause) ==
    <<"Failed to pull from repository: ">> \o cause
        \o <<". Please verify the repository and branch exist.">>
UnknownToolMsg(name) == <<"Unknown tool: ", name>>
\* the TypeError of reading a property of null
NullPropertyMsg == <<"Cannot read properties of null (reading 'path')">>

\* Messages of the errors the remote API client throws.
BadCredentials == <<"Bad credentials">>
NotFound == <<"Not Found">>
NetworkError == <<"request failed">>
NotFastForward == <<"Update is not a fast forward">>

\* ------------------------------------------------------- local git config
\* What `git config --get <key>` printed, or ExecFailed when execSync threw
\* (git exits non-zero when the key is unset).  A URL is a sequence of
\* tokens: separators "/" and ":" and the runs of text between them.
ExecFailed == <<"<execSync threw>">>
RemoteOutputs ==
    { ExecFailed,
      <<>>,
      <<"https:", "/", "/", "github.com", "/", "octo", "/", "r.git">>,
      <<"git@", "github.com", ":", "bob", "/", "r.git">>,
      <<"https:", "/", "/", "github.com", "/">>,
      <<"https:", "/", "/", "gitlab.com", "/", "carol", "/", "r.git">> }
UserOutputs == { "<execSync threw>", "", "bob" }

\* remoteUrl.match(/github\.com[\/:]([^\/]+)/): the first place where
\* "github.com" is followed by "/" or ":" and then by text other than "/";
\* the capture is that text.  Null when there is no such place.
RECURSIVE GithubMatch(_, _)
GithubMatch(url, k) ==
    IF k + 2 > Len(url) THEN Null
    ELSE IF url[k] = "github.com" /\ url[k + 1] \in {"/", ":"} /\ url[k + 2] # "/"
         THEN url[k + 2]
         ELSE GithubMatch(url, k + 1)

getGitConfigUser(userOut) ==
    IF userOut = "<execSync threw>" THEN Null
    ELSE IF Truthy(userOut) THEN userOut ELSE Null

\* TRUE when getGitConfigOwner goes on to read user.name.
ReadsUserName(remoteOut) ==
    \/ remoteOut = ExecFailed
    \/ remoteOut = <<>>
    \/ ~Truthy(GithubMatch(remoteOut, 1))

\* Variant: the remote URL is not looked at.
getGitConfigOwnerUserOnly(remoteOut, userOut) == getGitConfigUser(userOut)

getGitConfigOwner(remoteOut, userOut) ==
    IF ReadsUserName(remoteOut) THEN getGitConfigUser(userOut)
    ELSE GithubMatch(remoteOut, 1)

\* ------------------------------------------------------ request validation
\* args.files.every((file) => typeof file.path === "string" && typeof
\* file.content === "string"): the entries are visited in order, the visit
\* stops at the first entry the callback rejects, and reading .path of a null
\* entry throws a TypeError.
RECURSIVE FilesEvery(_, _)
FilesEvery(files, k) ==
    IF k > Len(files) THEN "true"
    ELSE IF files[k] = NullFile THEN "throws"
    ELSE IF IsString(files[k].path) /\ IsString(files[k].content)
         THEN FilesEvery(files, k + 1)
         ELSE "false"

\* The && chain of isValidCreateCommitArgs: "true", "false", or "throws"
\* when the callback of every threw.
CreateCommitArgsCheck(a) ==
    IF IsString(a.repo) /\ IsString(a.message) THEN FilesEvery(a.files, 1) ELSE "false"

isValidCreateCommitArgs(a) == CreateCommitArgsCheck(a) = "true"

isValidPushArgs(a) == IsString(a.repo)

isValidPullArgs(a) == IsString(a.repo) /\ IsString(a.branch)

isValidGitStatusArgs(a) == IsString(a.repo)

VARIABLES
    scope,       \* the family of requests of this behaviour
    token,       \* process.env.GITHUB_TOKEN: "set" or "unset"
    phase,       \* the process: "starting", "serving" or "exited"
    alive,       \* the server process is running
    tool,        \* request.params.name of each invocation
    pc,          \* position of each invocation in its handler
    args,        \* request.params.arguments of each invocation
    owner,       \* let owner
    branch,      \* const branch
    refData,     \* refData.object.sha
    commitData,  \* commitData.tree.sha
    uploads,     \* per file: the sha its createBlob call returned, NoSha while in flight
    arrival,     \* the indices of the files in the order their createBlob calls settled
    blobs,       \* the blob records collected by Promise.all
    newTree,     \* newTree.sha
    newCommit,   \* newCommit.sha
    result,      \* the payload returned to the caller
    error,       \* the message of the McpError thrown to the caller
    calls,       \* calls issued by each invocation, in issue order
    refs,        \* remote: branch -> tip commit sha of octo/r
    commits,     \* remote: commit objects of octo/r, the sha is the index
    refLog,      \* remote: reference updates applied, in order
    pushes,      \* pushes made by the other writer so far
    pred,        \* per invocation: the invocations that had returned when it arrived
    staged       \* local repository: the paths in its staging area

vars == <<scope, token, phase, alive, tool, pc, args, owner, branch, refData,
          commitData, uploads, arrival, blobs, newTree, newCommit, result, error,
          calls, refs, commits, refLog, pushes, pred, staged>>

\* ----------------------------------------------------------------- inputs
SeqsUpTo(S, n) == UNION {[1..k -> S] : k \in 0..n}

\* Four families of behaviours: "identity" varies what validation and
\* owner and branch resolution read, with one create_commit invocation
\* running against a writer that pushes to the repository; "files" varies
\* the files list of one invocation; "race" runs several create_commit
\* invocations against the same repository; "tools" varies the tool a
\* request names, with and without the credential in the environment, again
\* against a writer that pushes; "local" sends a git_add request to the
\* version of the server that serves the local git tools.
IdentityArgs ==
    [owner : {Undefined, "", "octo"},
     repo : {"r", Undefined},
     branch : {Undefined, "", "main", "gone"},
     message : {"init", ""},
     files : {<<>>,
              <<[path |-> "a.txt", content |-> "hello"]>>,
              <<[path |-> Undefined, content |-> "hello"]>>}]

FilesArgs ==
    [owner : {"octo"},
     repo : {"r"},
     branch : {"main"},
     message : {"init"},
     files : SeqsUpTo(FileChanges, MaxFiles)]

RaceArgs ==
    [owner : {"octo"},
     repo : {"r"},
     branch : {"main", "dev"},
     message : {"init"},
     files : {<<[path |-> "a.txt", content |-> "hello"]>>}]

ArgsOf(sc) ==
    CASE sc = "identity" -> IdentityArgs
      [] sc = "files" -> FilesArgs
      [] OTHER -> RaceArgs

\* Requests of the "tools" family: create_commit with files lists that hold
\* a null entry, and the arguments push, pull and git_status read.
NullFilesArgs ==
    [owner : {"octo"},
     repo : {"r", Undefined},
     branch : {"main"},
     message : {"init"},
     files : {<<[path |-> "a.txt", content |-> "hello"]>>,
              <<NullFile>>,
              <<[path |-> "a.txt", content |-> "hello"], NullFile>>,
              <<[path |-> Undefined, content |-> "hello"], NullFile>>}]

LookupArgs ==
    [owner : {Undefined, "octo"},
     repo : {"r", Undefined},
     branch : {Undefined, "", "main"},
     message : {Undefined},
     files : {<<>>}]

\* Requests of the "local" family: the arguments of git_add.  "/repo" is
\* a git repository, "/plain" a directory without .git, "/nowhere" no path.
LocalPaths == {"/repo", "/plain", "/nowhere"}
LocalArgs ==
    [repo_path : LocalPaths,
     files : {<<"a.txt">>, <<"a.txt", "b.txt">>}]

ToolNames == {"create_commit", "push", "pull", "git_status"}
ToolsOf(sc) ==
    CASE sc = "tools" -> ToolNames
      [] sc = "local" -> {}
      [] OTHER -> {"create_commit"}
RequestsOf(sc, name) ==
    IF sc = "tools"
    THEN (IF name = "create_commit" THEN NullFilesArgs ELSE LookupArgs)
    ELSE ArgsOf(sc)

\* ----------------------------------------------------------------- remote
\* The tip of heads/<b> in <o>/r; NoSha when there is no such reference.
RefOf(o, b) == IF o = RepoOwner /\ b \in Branches THEN refs[b] ELSE NoSha

\* a is c or an ancestor of c.
RECURSIVE IsAncestor(_, _)
IsAncestor(a, c) ==
    \/ a = c
    \/ \E k \in 1..Len(commits[c].parents) : IsAncestor(a, commits[c].parents[k])

\* PATCH /git/refs: without force the remote accepts fast-forwards only.
RemoteAcceptsUpdate(b, sha, force) == force \/ IsAncestor(refs[b], sha)

\* ------------------------------------------- expressions of the handler
\* Variant: the parent is the tip of the branch when the commit is written.
CommitParentsLive(i) == <<refs[branch[i]]>>

\* Variant: the tip is read once and kept for later invocations.
CommitParentsCached(i) == IF refData[1] # NoSha THEN <<refData[1]>> ELSE <<refData[i]>>

\* parents: [refData.object.sha]
CommitParents(i) == <<refData[i]>>

\* Variant: the base is the tree of the tip the branch has when the tree is built.
BaseTreeLive(i) == commits[refs[branch[i]]].tree

\* base_tree: commitData.tree.sha
BaseTree(i) == commitData[i]

\* Variant: the update is forced.
UpdateRefForced == TRUE

\* updateRef({owner, repo, ref, sha}): no force parameter is passed
UpdateRefForce == FALSE

\* Variant: the branch is kept in a field of the handlers object, set by
\* the first invocation that resolved one.
RefNameShared(i) == IF branch[1] # Undefined THEN branch[1] ELSE branch[i]

\* ref: `heads/${branch}` of getRef and of updateRef
RefName(i) == branch[i]

\* Variant: each record is pushed to the list when its upload completes.
BlobRecordsByArrival(files, shas, order) ==
    [n \in 1..Len(order) |->
        [path |-> files[order[n]].path, mode |-> "100644", type |-> "blob",
         sha |-> shas[order[n]]]]

\* the array Promise.all resolves to: one record per file, in files order,
\* whatever the order in which the uploads completed
BlobRecords(files, shas, order) ==
    [k \in 1..Len(files) |->
        [path |-> files[k].path, mode |-> "100644", type |-> "blob", sha |-> shas[k]]]

\* files_changed: args.files.length
FilesChanged(files) == Len(files)

\* Variant: each path is reported once.
RECURSIVE FilePathsUnique(_)
FilePathsUnique(files) ==
    IF files = <<>> THEN <<>>
    ELSE LET front == FilePathsUnique(SubSeq(files, 1, Len(files) - 1))
             p == files[Len(files)].path
         IN  IF \E k \in 1..Len(front) : front[k] = p THEN front ELSE Append(front, p)

\* file_paths: args.files.map((file) => file.path)
FilePaths(files) == [k \in 1..Len(files) |-> files[k].path]

\* Variant: no guard against an empty list of blobs.
NoBlobsUnchecked(b) == FALSE

\* !blobs || blobs.length === 0
NoBlobs(b) == Len(b) = 0

\* the catch of the tree/commit block wraps whatever was thrown inside it
TreeCommitCatch(cause) == CreateCommitFailedMsg(cause)

\* the catch of the reference block rethrows an McpError as it is and
\* wraps anything else
RefCatch(cause, isMcpError) == IF isMcpError THEN cause ELSE GetRefFailedMsg(cause)

\* Variant: the sha reported is the one read from the branch.
SuccessPayloadOfTip(i) ==
    [status |-> "success",
     commit_sha |-> refData[i],
     html_url |-> <<"https://github.com/", owner[i], "/", args[i].repo, "/commit/", refData[i]>>,
     repository |-> <<owner[i], "/", args[i].repo>>,
     branch |-> branch[i],
     message |-> args[i].message,
     files_changed |-> FilesChanged(args[i].files),
     file_paths |-> FilePaths(args[i].files),
     timestamp |-> "now"]

SuccessPayload(i) ==
    [status |-> "success",
     commit_sha |-> newCommit[i],
     html_url |-> <<"https://github.com/", owner[i], "/", args[i].repo, "/commit/", newCommit[i]>>,
     repository |-> <<owner[i], "/", args[i].repo>>,
     branch |-> branch[i],
     message |-> args[i].message,
     files_changed |-> FilesChanged(args[i].files),
     file_paths |-> FilePaths(args[i].files),
     timestamp |-> "now"]

Call(op, o, ref, out) == [op |-> op, owner |-> o, ref |-> ref, out |-> out]

\* createTree({owner, repo, base_tree, tree: blobs})
TreeCall(o, base, entries, out) ==
    [op |-> "git.createTree", owner |-> o, ref |-> base, tree |-> entries, out |-> out]

\* the switch of the call-tool request handler: the handler a tool name is
\* served by, "default" for a name without a case
Dispatch(name) ==
    CASE name = "create_commit" -> "handleCreateCommit"
      [] name = "push" -> "handlePush"
      [] name = "pull" -> "handlePull"
      [] OTHER -> "default"

\* the validator each handler starts with
ArgsCheck(handler, a) ==
    CASE handler = "handleCreateCommit" -> CreateCommitArgsCheck(a)
      [] handler = "handlePush" -> (IF isValidPushArgs(a) THEN "true" ELSE "false")
      [] handler = "handlePull" -> (IF isValidPullArgs(a) THEN "true" ELSE "false")

InvalidMsgOf(handler) ==
    CASE handler = "handleCreateCommit" -> InvalidArgsMsg
      [] handler = "handlePush" -> InvalidPushArgsMsg
      [] handler = "handlePull" -> InvalidPullArgsMsg

\* what a failure of users.getAuthenticated becomes: handleCreateCommit and
\* handlePull catch it and throw their own error, handlePush has no try
\* around the call and lets it through
OwnerCatch(name, cause) == IF name = "push" THEN cause ELSE OwnerMsg

\* Variant: no timestamp in the payload.
PushPayloadNoTimestamp(o, repo, b) ==
    [message |-> "Push successful (changes are automatically pushed when commits are created)",
     repository |-> <<o, "/", repo>>,
     branch |-> b]

\* the payload handlePush returns
PushPayload(o, repo, b) ==
    [message |-> "Push successful (changes are automatically pushed when commits are created)",
     repository |-> <<o, "/", repo>>,
     branch |-> b,
     timestamp |-> "now"]

\* the payload handlePull returns for the commit repos.getCommit answered with
PullPayload(i, sha) ==
    [status |-> "success",
     commit_sha |-> sha,
     html_url |-> <<"https://github.com/", owner[i], "/", args[i].repo, "/commit/", sha>>,
     message |-> commits[sha].message,
     author |-> commits[sha].by,
     date |-> "then",
     files_changed |->
        SelectSeq(PathSeq, LAMBDA p :
            commits[sha].parents # <<>>
            /\ TreeOf(commits[sha].tree)[p] # TreeOf(commits[commits[sha].parents[1]].tree)[p]),
     repository |-> <<owner[i], "/", args[i].repo>>,
     branch |-> branch[i],
     timestamp |-> "now"]

Running(i) == alive /\ pc[i] \notin {"idle", "done", "failed"}

NoArgs == [owner |-> Undefined, repo |-> Undefined, branch |-> Undefined,
           message |-> Undefined, files |-> <<>>]

Init ==
    /\ scope \in {"identity", "files", "race", "tools", "local"}
    /\ staged = {}
    /\ token \in (IF scope = "tools" THEN {"set", "unset"} ELSE {"set"})
    /\ phase = "starting"
    /\ alive = TRUE
    /\ tool = [i \in Invs |-> "none"]
    /\ arrival = [i \in Invs |-> <<>>]
    /\ pc = [i \in Invs |-> "idle"]
    /\ args = [i \in Invs |-> NoArgs]
    /\ owner = [i \in Invs |-> Undefined]
    /\ branch = [i \in Invs |-> Undefined]
    /\ refData = [i \in Invs |-> NoSha]
    /\ commitData = [i \in Invs |-> NoSha]
    /\ uploads = [i \in Invs |-> <<>>]
    /\ blobs = [i \in Invs |-> <<>>]
    /\ newTree = [i \in Invs |-> NoSha]
    /\ newCommit = [i \in Invs |-> NoSha]
    /\ result = [i \in Invs |-> NoResult]
    /\ error = [i \in Invs |-> NoError]
    /\ calls = [i \in Invs |-> <<>>]
    /\ refs = [b \in Branches |-> 1]
    /\ commits = <<[tree |-> TreeSha(InitialTree), parents |-> <<>>, message |-> "root", by |-> 0]>>
    /\ refLog = <<>>
    /\ pushes = 0
    /\ pred = [i \in Invs |-> {}]

remoteVars == <<refs, commits, refLog, pushes>>
stepVars == <<tool, args, owner, branch, refData, commitData, uploads, arrival, blobs,
              newTree, newCommit, pred>>

\* throw out of a handler
Throw(i, msg) ==
    /\ pc' = [pc EXCEPT ![i] = "failed"]
    /\ error' = [error EXCEPT ![i] = msg]
    /\ UNCHANGED result

Goto(i, label) ==
    /\ pc' = [pc EXCEPT ![i] = label]
    /\ UNCHANGED <<error, result>>

Log(i, entries) == calls' = [calls EXCEPT ![i] = @ \o entries]

\* Variant: another literal.
FallbackMaster == "master"

\* the literal detectCurrentBranch returns from its catch
FallbackBranch == "main"

\* What a handler does once owner o and branch b are known: handleCreateCommit
\* goes on to the reference read, handlePull to its commit read, handlePush
\* returns its payload.
AfterBranch(i, name, a, o, b) ==
    CASE name = "push" ->
            /\ pc' = [pc EXCEPT ![i] = "done"]
            /\ result' = [result EXCEPT ![i] = PushPayload(o, a.repo, b)]
            /\ UNCHANGED error
      [] name = "pull" -> Goto(i, "pullCommit")
      [] OTHER -> Goto(i, "getRef")

\* Variant: the default branch is read whether or not a branch is given.
ResolveBranchAlwaysDetect(i, name, a, o) ==
    /\ UNCHANGED branch
    /\ Goto(i, "repoGet")

\* const branch = args.branch || (await this.detectCurrentBranch(args.repo, owner)):
\* with a branch argument the handler runs on, without one it is suspended
\* in detectCurrentBranch.
ResolveBranch(i, name, a, o) ==
    IF Truthy(a.branch)
    THEN /\ branch' = [branch EXCEPT ![i] = a.branch]
         /\ AfterBranch(i, name, a, o, a.branch)
    ELSE /\ UNCHANGED branch
         /\ Goto(i, "repoGet")

\* Variant: a git config read that fails is not caught in getGitConfigOwner
\* and ends in the catch of the owner resolution.
ResolveOwnerStrict(i, name, a) ==
    IF Truthy(a.owner)
    THEN /\ owner' = [owner EXCEPT ![i] = a.owner]
         /\ ResolveBranch(i, name, a, a.owner)
         /\ UNCHANGED calls
    ELSE \E remoteOut \in RemoteOutputs :
         \E userOut \in (IF ReadsUserName(remoteOut) THEN UserOutputs ELSE {Undefined}) :
            LET gitConfigOwner == getGitConfigOwner(remoteOut, userOut)
                reads == <<Call("git config remote.origin.url", Undefined, Undefined, remoteOut)>>
                         \o (IF ReadsUserName(remoteOut)
                             THEN <<Call("git config user.name", Undefined, Undefined, userOut)>>
                             ELSE <<>>)
            IN  /\ Log(i, reads)
                /\ IF remoteOut = ExecFailed
                   THEN /\ UNCHANGED <<owner, branch>>
                        /\ Throw(i, OwnerMsg)
                   ELSE IF Truthy(gitConfigOwner)
                   THEN /\ owner' = [owner EXCEPT ![i] = gitConfigOwner]
                        /\ ResolveBranch(i, name, a, gitConfigOwner)
                   ELSE /\ UNCHANGED <<owner, branch>>
                        /\ Goto(i, "auth")

\* let owner = args.owner; if (!owner) { const gitConfigOwner = getGitConfigOwner(); ... }
\* up to the first await: the two git config reads are synchronous.
ResolveOwner(i, name, a) ==
    IF Truthy(a.owner)
    THEN /\ owner' = [owner EXCEPT ![i] = a.owner]
         /\ ResolveBranch(i, name, a, a.owner)
         /\ UNCHANGED calls
    ELSE \E remoteOut \in RemoteOutputs :
         \E userOut \in (IF ReadsUserName(remoteOut) THEN UserOutputs ELSE {Undefined}) :
            LET gitConfigOwner == getGitConfigOwner(remoteOut, userOut)
                reads == <<Call("git config remote.origin.url", Undefined, Undefined, remoteOut)>>
                         \o (IF ReadsUserName(remoteOut)
                             THEN <<Call("git config user.name", Undefined, Undefined, userOut)>>
                             ELSE <<>>)
            IN  /\ Log(i, reads)
                /\ IF Truthy(gitConfigOwner)
                   THEN /\ owner' = [owner EXCEPT ![i] = gitConfigOwner]
                        /\ ResolveBranch(i, name, a, gitConfigOwner)
                   ELSE /\ UNCHANGED <<owner, branch>>
                        /\ Goto(i, "auth")

\* the switch of the server version that serves the local git tools
DispatchLocal(name) ==
    CASE name = "git_add" -> "gitAdd"
      [] OTHER -> "default"

NoSuchPathMsg(path) == <<"Repository path does not exist: ", path>>
NotARepoMsg(path) == <<"Not a git repository: ", path>>
GitFailedMsg == <<"Git command failed: ">>
\* the TypeError of spreading undefined into an array literal
NotIterableMsg == <<"files is not iterable">>

\* gitAdd(repo_path, files): validateRepoPath, then `git add <files>`, then
\* the confirmation; files is what the caller passed, Undefined when it
\* passed nothing.
GitAdd(i, path, files) ==
    IF path = "/nowhere" THEN Throw(i, NoSuchPathMsg(path)) /\ UNCHANGED staged
    ELSE IF path = "/plain" THEN Throw(i, NotARepoMsg(path)) /\ UNCHANGED staged
    ELSE IF files = Undefined THEN Throw(i, NotIterableMsg) /\ UNCHANGED staged
    ELSE \/ /\ staged' = staged \cup {files[k] : k \in 1..Len(files)}
            /\ pc' = [pc EXCEPT ![i] = "done"]
            /\ result' = [result EXCEPT ![i] =
                   [result |-> <<"Successfully staged ", Len(files), " file(s): ", files>>]]
            /\ UNCHANGED error
         \/ Throw(i, GitFailedMsg) /\ UNCHANGED staged

\* A call-tool request arrives at the server version that serves the local
\* git tools: case "git_add" calls this.handlers.gitAdd((args as any).repo_path),
\* with no second argument.
InvokeLocal(i) ==
    /\ alive
    /\ phase = "serving"
    /\ scope = "local"
    /\ pc[i] = "idle"
    /\ i = 1
    /\ \E a \in LocalArgs :
        /\ tool' = [tool EXCEPT ![i] = "git_add"]
        /\ args' = [args EXCEPT ![i] = a]
        /\ IF DispatchLocal("git_add") = "gitAdd"
           THEN GitAdd(i, a.repo_path, Undefined)
           ELSE Throw(i, UnknownToolMsg("git_add")) /\ UNCHANGED staged
    /\ UNCHANGED <<scope, token, phase, alive, owner, branch, refData, commitData, uploads,
                   arrival, blobs, newTree, newCommit, calls, remoteVars, pred>>

\* The process starts.  The entry point that builds the server from
\* ./server.js has its credential check commented out and goes on to serve;
\* the single-file entry point exits when the credential is absent.
Startup ==
    /\ phase = "starting"
    /\ \/ phase' = "serving"
       \/ phase' = (IF token = "unset" THEN "exited" ELSE "serving")
    /\ UNCHANGED <<scope, staged, token, alive, pc, stepVars, result, error, calls, refs, commits,
                   refLog, pushes>>

\* A call-tool request arrives: the switch picks the handler, which runs
\* from its validator to its first await.
Invoke(i) ==
    /\ alive
    /\ phase = "serving"
    /\ pc[i] = "idle"
    /\ \A j \in Invs : j < i => pc[j] # "idle"
    /\ scope # "race" => i = 1
    /\ \E name \in ToolsOf(scope) : \E a \in RequestsOf(scope, name) :
        /\ tool' = [tool EXCEPT ![i] = name]
        /\ args' = [args EXCEPT ![i] = a]
        /\ pred' = [pred EXCEPT ![i] = {j \in Invs : pc[j] \in {"done", "failed"}}]
        /\ IF Dispatch(name) = "default"
           THEN /\ Throw(i, UnknownToolMsg(name))
                /\ UNCHANGED <<owner, branch, calls>>
           ELSE CASE ArgsCheck(Dispatch(name), a) = "true" -> ResolveOwner(i, name, a)
                  [] ArgsCheck(Dispatch(name), a) = "false" ->
                        /\ Throw(i, InvalidMsgOf(Dispatch(name)))
                        /\ UNCHANGED <<owner, branch, calls>>
                  [] OTHER ->
                        /\ Throw(i, NullPropertyMsg)
                        /\ UNCHANGED <<owner, branch, calls>>
    /\ UNCHANGED <<scope, staged, token, phase, alive, refData, commitData, uploads, arrival, blobs,
                   newTree, newCommit, remoteVars>>

\* await this.octokit.users.getAuthenticated(): answered with the login of
\* the principal of the credential, rejected without one.
GetAuthenticated(i) ==
    /\ alive
    /\ pc[i] = "auth"
    /\ \/ /\ token = "set"
          /\ Log(i, <<Call("users.getAuthenticated", Undefined, Undefined, Login)>>)
          /\ owner' = [owner EXCEPT ![i] = Login]
          /\ ResolveBranch(i, tool[i], args[i], Login)
       \/ /\ Log(i, <<Call("users.getAuthenticated", Undefined, Undefined, Null)>>)
          /\ UNCHANGED <<owner, branch>>
          /\ Throw(i, OwnerCatch(tool[i], IF token = "set" THEN NetworkError ELSE BadCredentials))
    /\ UNCHANGED <<pred, scope, staged, token, phase, alive, tool, arrival, args, refData, commitData,
                   uploads, blobs, newTree, newCommit, remoteVars>>

\* detectCurrentBranch: repos.get answers with default_branch; any failure
\* of the read is caught and "main" is returned.
DetectCurrentBranch(i) ==
    /\ alive
    /\ pc[i] = "repoGet"
    /\ \/ /\ owner[i] = RepoOwner
          /\ Log(i, <<Call("repos.get", owner[i], Undefined, DefaultBranch)>>)
          /\ branch' = [branch EXCEPT ![i] = DefaultBranch]
          /\ AfterBranch(i, tool[i], args[i], owner[i], DefaultBranch)
       \/ /\ Log(i, <<Call("repos.get", owner[i], Undefined, Null)>>)
          /\ branch' = [branch EXCEPT ![i] = FallbackBranch]
          /\ AfterBranch(i, tool[i], args[i], owner[i], FallbackBranch)
    /\ UNCHANGED <<pred, scope, staged, token, phase, alive, tool, arrival, args, owner, refData,
                   commitData, uploads, blobs, newTree, newCommit, remoteVars>>

\* handlePull: await this.octokit.repos.getCommit({owner, repo, ref: branch});
\* the payload is returned, or the catch wraps what was thrown.
PullGetCommit(i) ==
    /\ alive
    /\ pc[i] = "pullCommit"
    /\ LET tip == RefOf(owner[i], branch[i])
       IN  \/ /\ tip # NoSha
              /\ Log(i, <<Call("repos.getCommit", owner[i], branch[i], tip)>>)
              /\ pc' = [pc EXCEPT ![i] = "done"]
              /\ result' = [result EXCEPT ![i] = PullPayload(i, tip)]
              /\ UNCHANGED error
           \/ /\ Log(i, <<Call("repos.getCommit", owner[i], branch[i], NoSha)>>)
              /\ Throw(i, PullFailedMsg(IF tip = NoSha THEN NotFound ELSE NetworkError))
    /\ UNCHANGED <<scope, staged, token, phase, alive, stepVars, remoteVars>>

\* Variant: a rejected reference read is tried a second time.
GetRefRetrying(i) ==
    /\ alive
    /\ pc[i] = "getRef"
    /\ LET tip == RefOf(owner[i], RefName(i))
           tried == Len(SelectSeq(calls[i], LAMBDA c : c.op = "git.getRef"))
       IN  \/ /\ tip # NoSha
              /\ Log(i, <<Call("git.getRef", owner[i], RefName(i), tip)>>)
              /\ refData' = [refData EXCEPT ![i] = tip]
              /\ Goto(i, "getCommit")
           \/ /\ Log(i, <<Call("git.getRef", owner[i], RefName(i), NoSha)>>)
              /\ UNCHANGED refData
              /\ IF tried = 0
                 THEN Goto(i, "getRef")
                 ELSE Throw(i, RefCatch(IF tip = NoSha THEN NotFound ELSE NetworkError, FALSE))
    /\ UNCHANGED <<pred, scope, staged, token, phase, alive, tool, arrival, args, owner, branch,
                   commitData, uploads, blobs, newTree, newCommit, remoteVars>>

\* await this.octokit.git.getRef({owner, repo, ref: `heads/${branch}`})
GetRef(i) ==
    /\ alive
    /\ pc[i] = "getRef"
    /\ LET tip == RefOf(owner[i], RefName(i))
       IN  \/ /\ tip # NoSha
              /\ Log(i, <<Call("git.getRef", owner[i], RefName(i), tip)>>)
              /\ refData' = [refData EXCEPT ![i] = tip]
              /\ Goto(i, "getCommit")
           \/ /\ Log(i, <<Call("git.getRef", owner[i], RefName(i), NoSha)>>)
              /\ UNCHANGED refData
              /\ \/ Throw(i, RefCatch(InvalidRefMsg(branch[i]), TRUE))
                 \/ Throw(i, RefCatch(IF tip = NoSha THEN NotFound ELSE NetworkError, FALSE))
    /\ UNCHANGED <<pred, scope, staged, token, phase, alive, tool, arrival, args, owner, branch, commitData, uploads, blobs,
                   newTree, newCommit, remoteVars>>

\* Promise.all(args.files.map(async (file) => createBlob(...))): map starts
\* every upload, in files order, before the handler is suspended; the
\* promise of an empty list resolves to [] without any call.
StartUploads(i) ==
    LET files == args[i].files
    IN  /\ uploads' = [uploads EXCEPT ![i] = [k \in 1..Len(files) |-> NoSha]]
        /\ IF files = <<>>
           THEN /\ blobs' = [blobs EXCEPT ![i] = BlobRecords(files, <<>>, <<>>)]
                /\ Goto(i, "tree")
           ELSE /\ UNCHANGED blobs
                /\ Goto(i, "uploading")

\* Variant: the uploads are sent to the owner of the arguments.
UploadCallsArgOwner(i) ==
    [k \in 1..Len(args[i].files) |->
        Call("git.createBlob", args[i].owner, args[i].files[k].path, args[i].files[k].content)]

UploadCalls(i) ==
    [k \in 1..Len(args[i].files) |->
        Call("git.createBlob", owner[i], args[i].files[k].path, args[i].files[k].content)]

\* await this.octokit.git.getCommit({owner, repo, commit_sha: refData.object.sha});
\* on success the handler runs on and starts the uploads.
GetCommit(i) ==
    /\ alive
    /\ pc[i] = "getCommit"
    /\ \/ /\ Log(i, <<Call("git.getCommit", owner[i], refData[i], commits[refData[i]].tree)>>
                    \o UploadCalls(i))
          /\ commitData' = [commitData EXCEPT ![i] = commits[refData[i]].tree]
          /\ StartUploads(i)
       \/ /\ Log(i, <<Call("git.getCommit", owner[i], refData[i], NoSha)>>)
          /\ UNCHANGED <<commitData, uploads, blobs>>
          /\ \/ Throw(i, RefCatch(InvalidCommitMsg, TRUE))
             \/ Throw(i, RefCatch(NetworkError, FALSE))
    /\ UNCHANGED <<pred, scope, staged, token, phase, alive, tool, arrival, args, owner, branch, refData,
                   newTree, newCommit, remoteVars>>

\* One createBlob call returns; when it was the last one, Promise.all
\* resolves to the records of all files.
BlobUploaded(i, k) ==
    /\ alive
    /\ token = "set"
    /\ pc[i] = "uploading"
    /\ k \in 1..Len(uploads[i])
    /\ uploads[i][k] = NoSha
    /\ LET shas == [uploads[i] EXCEPT ![k] = BlobSha(args[i].files[k].content)]
           order == Append(arrival[i], k)
       IN  /\ uploads' = [uploads EXCEPT ![i] = shas]
           /\ arrival' = [arrival EXCEPT ![i] = order]
           /\ IF \A n \in 1..Len(shas) : shas[n] # NoSha
              THEN /\ blobs' = [blobs EXCEPT ![i] = BlobRecords(args[i].files, shas, order)]
                   /\ Goto(i, "tree")
              ELSE /\ UNCHANGED blobs
                   /\ Goto(i, "uploading")
    /\ UNCHANGED <<pred, scope, staged, token, phase, alive, tool, args, owner, branch, refData,
                   commitData, newTree, newCommit, calls, remoteVars>>

\* Variant: the handler waits until every upload has settled and goes on
\* with the records of the uploads that succeeded.
BlobUploadFailedSettled(i, k) ==
    /\ alive
    /\ pc[i] = "uploading"
    /\ k \in 1..Len(uploads[i])
    /\ uploads[i][k] = NoSha
    /\ LET shas == [uploads[i] EXCEPT ![k] = FailedUpload]
           good == SelectSeq([n \in 1..Len(shas) |-> n], LAMBDA n : shas[n] \notin {NoSha, FailedUpload})
       IN  /\ uploads' = [uploads EXCEPT ![i] = shas]
           /\ arrival' = [arrival EXCEPT ![i] = Append(@, k)]
           /\ IF \A n \in 1..Len(shas) : shas[n] # NoSha
              THEN /\ blobs' = [blobs EXCEPT ![i] = BlobRecordsByArrival(args[i].files, shas, good)]
                   /\ Goto(i, "tree")
              ELSE /\ UNCHANGED blobs
                   /\ Goto(i, "uploading")
    /\ UNCHANGED <<pred, scope, staged, token, phase, alive, tool, args, owner, branch, refData,
                   commitData, newTree, newCommit, calls, remoteVars>>

\* Variant: the rejection of an upload is swallowed; its promise never
\* settles and the handler keeps waiting for it.
BlobUploadFailedHanging(i, k) ==
    /\ alive
    /\ pc[i] = "uploading"
    /\ k \in 1..Len(uploads[i])
    /\ uploads[i][k] = NoSha
    /\ UNCHANGED vars

\* One createBlob call fails: Promise.all rejects at once and the catch
\* throws; the uploads still in flight are left alone.
BlobUploadFailed(i, k) ==
    /\ alive
    /\ pc[i] = "uploading"
    /\ k \in 1..Len(uploads[i])
    /\ uploads[i][k] = NoSha
    /\ uploads' = [uploads EXCEPT ![i][k] = FailedUpload]
    /\ arrival' = [arrival EXCEPT ![i] = Append(@, k)]
    /\ Throw(i, BlobsFailedMsg(IF token = "set" THEN NetworkError ELSE BadCredentials))
    /\ UNCHANGED <<pred, scope, staged, token, phase, alive, tool, args, owner, branch, refData,
                   commitData, blobs, newTree, newCommit, calls, remoteVars>>

\* if (!blobs || blobs.length === 0) throw ...; await createTree({base_tree, tree: blobs})
CreateTree(i) ==
    /\ alive
    /\ pc[i] = "tree"
    /\ IF NoBlobs(blobs[i])
       THEN /\ Throw(i, TreeCommitCatch(NoBlobsMsg))
            /\ UNCHANGED <<newTree, calls>>
       ELSE \/ LET t == TreeSha(LayerEntries(TreeOf(BaseTree(i)), blobs[i]))
               IN  /\ token = "set"
                   /\ Log(i, <<TreeCall(owner[i], BaseTree(i), blobs[i], t)>>)
                   /\ newTree' = [newTree EXCEPT ![i] = t]
                   /\ Goto(i, "commit")
            \/ /\ Log(i, <<TreeCall(owner[i], BaseTree(i), blobs[i], NoSha)>>)
               /\ UNCHANGED newTree
               /\ \/ Throw(i, TreeCommitCatch(InvalidTreeMsg))
                  \/ Throw(i, TreeCommitCatch(NetworkError))
    /\ UNCHANGED <<pred, scope, staged, token, phase, alive, tool, arrival, args, owner, branch, refData, commitData, uploads, blobs,
                   newCommit, remoteVars>>

\* Variant: the step that writes the commit also points the branch at it.
CreateCommitMovingRef(i) ==
    /\ alive
    /\ pc[i] = "commit"
    /\ token = "set"
    /\ LET sha == Len(commits) + 1
       IN  /\ commits' = Append(commits, [tree |-> newTree[i], parents |-> CommitParents(i),
                                          message |-> args[i].message, by |-> i])
           /\ Log(i, <<Call("git.createCommit", owner[i], CommitParents(i), sha)>>)
           /\ newCommit' = [newCommit EXCEPT ![i] = sha]
           /\ refs' = [refs EXCEPT ![RefName(i)] = sha]
           /\ Goto(i, "updateRef")
    /\ UNCHANGED <<pred, scope, staged, token, phase, alive, tool, arrival, args, owner, branch, refData, commitData, uploads, blobs,
                   newTree, refLog, pushes>>

\* Variant: a rejected createCommit is logged and the handler goes on to the
\* reference update with the tip it captured.
CreateCommitContinuing(i) ==
    /\ alive
    /\ pc[i] = "commit"
    /\ \/ LET sha == Len(commits) + 1
          IN  /\ token = "set"
              /\ commits' = Append(commits, [tree |-> newTree[i], parents |-> CommitParents(i),
                                             message |-> args[i].message, by |-> i])
              /\ Log(i, <<Call("git.createCommit", owner[i], CommitParents(i), sha)>>)
              /\ newCommit' = [newCommit EXCEPT ![i] = sha]
       \/ /\ Log(i, <<Call("git.createCommit", owner[i], CommitParents(i), NoSha)>>)
          /\ newCommit' = [newCommit EXCEPT ![i] = refData[i]]
          /\ UNCHANGED commits
    /\ Goto(i, "updateRef")
    /\ UNCHANGED <<pred, scope, staged, token, phase, alive, tool, arrival, args, owner, branch,
                   refData, commitData, uploads, blobs, newTree, refs, refLog, pushes>>

\* await createCommit({owner, repo, message, tree: newTree.sha, parents: [refData.object.sha]})
CreateCommit(i) ==
    /\ alive
    /\ pc[i] = "commit"
    /\ \/ LET sha == Len(commits) + 1
          IN  /\ token = "set"
              /\ commits' = Append(commits, [tree |-> newTree[i], parents |-> CommitParents(i),
                                             message |-> args[i].message, by |-> i])
              /\ Log(i, <<Call("git.createCommit", owner[i], CommitParents(i), sha)>>)
              /\ newCommit' = [newCommit EXCEPT ![i] = sha]
              /\ Goto(i, "updateRef")
       \/ /\ Log(i, <<Call("git.createCommit", owner[i], CommitParents(i), NoSha)>>)
          /\ UNCHANGED <<commits, newCommit>>
          /\ \/ Throw(i, TreeCommitCatch(InvalidNewCommitMsg))
             \/ Throw(i, TreeCommitCatch(NetworkError))
    /\ UNCHANGED <<pred, scope, staged, token, phase, alive, tool, arrival, args, owner, branch, refData, commitData, uploads, blobs,
                   newTree, refs, refLog, pushes>>

\* await updateRef({owner, repo, ref: `heads/${branch}`, sha: newCommit.sha});
\* then the success payload is returned.
UpdateRef(i) ==
    /\ alive
    /\ pc[i] = "updateRef"
    /\ LET b == RefName(i)
       IN  \/ /\ token = "set"
              /\ RefOf(owner[i], b) # NoSha
              /\ RemoteAcceptsUpdate(b, newCommit[i], UpdateRefForce)
              /\ Log(i, <<Call("git.updateRef", owner[i], b, newCommit[i])>>)
              /\ refs' = [refs EXCEPT ![b] = newCommit[i]]
              /\ refLog' = Append(refLog, [ref |-> b, from |-> refs[b], to |-> newCommit[i], by |-> i])
              /\ pc' = [pc EXCEPT ![i] = "done"]
              /\ result' = [result EXCEPT ![i] = SuccessPayload(i)]
              /\ UNCHANGED error
           \/ /\ Log(i, <<Call("git.updateRef", owner[i], b, NoSha)>>)
              /\ UNCHANGED <<refs, refLog>>
              /\ \/ /\ RefOf(owner[i], b) # NoSha
                    /\ ~RemoteAcceptsUpdate(b, newCommit[i], UpdateRefForce)
                    /\ Throw(i, UpdateRefFailedMsg(NotFastForward))
                 \/ Throw(i, UpdateRefFailedMsg(NetworkError))
    /\ UNCHANGED <<scope, staged, token, phase, alive, stepVars, commits, pushes>>

\* The server process dies while an invocation is between two steps (not
\* taken in the "race" family).
Crash ==
    /\ scope # "race"
    /\ \E i \in Invs : Running(i)
    /\ alive' = FALSE
    /\ UNCHANGED <<scope, staged, token, phase, pc, stepVars, result, error, calls, remoteVars>>

\* Another writer pushes one commit on top of branch b; the commit changes
\* the content of b.txt.
OtherWriterPush(b) ==
    /\ scope \in {"identity", "tools"}
    /\ pushes < MaxPush
    /\ pushes' = pushes + 1
    /\ LET sha == Len(commits) + 1
           old == TreeOf(commits[refs[b]].tree)
           new == [old EXCEPT !["b.txt"] = IF @ = "world" THEN "hello" ELSE "world"]
       IN  /\ commits' = Append(commits, [tree |-> TreeSha(new), parents |-> <<refs[b]>>,
                                          message |-> "other", by |-> 0])
           /\ refs' = [refs EXCEPT ![b] = sha]
           /\ refLog' = Append(refLog, [ref |-> b, from |-> refs[b], to |-> sha, by |-> 0])
    /\ UNCHANGED <<scope, staged, token, phase, alive, pc, stepVars, result, error, calls>>

Next ==
    \/ Startup
    \/ \E i \in Invs : Invoke(i)
    \/ \E i \in Invs : InvokeLocal(i)
    \/ \E i \in Invs : GetAuthenticated(i)
    \/ \E i \in Invs : DetectCurrentBranch(i)
    \/ \E i \in Invs : PullGetCommit(i)
    \/ \E i \in Invs : GetRef(i)
    \/ \E i \in Invs : GetCommit(i)
    \/ \E i \in Invs, k \in 1..MaxFiles : BlobUploaded(i, k)
    \/ \E i \in Invs, k \in 1..MaxFiles : BlobUploadFailed(i, k)
    \/ \E i \in Invs : CreateTree(i)
    \/ \E i \in Invs : CreateCommit(i)
    \/ \E i \in Invs : UpdateRef(i)
    \/ Crash
    \/ \E b \in Branches : OtherWriterPush(b)

Spec == Init /\ [][Next]_vars

\* The steps of invocation i that are the settling of a call it awaits.
Settle(i) ==
    \/ GetAuthenticated(i)
    \/ DetectCurrentBranch(i)
    \/ PullGetCommit(i)
    \/ GetRef(i)
    \/ GetCommit(i)
    \/ \E k \in 1..MaxFiles : BlobUploaded(i, k) \/ BlobUploadFailed(i, k)
    \/ CreateTree(i)
    \/ CreateCommit(i)
    \/ UpdateRef(i)

\* Every call an invocation awaits settles in the end: the promise is
\* resolved or rejected and the event loop resumes the handler.
\* Checked for the families "files", "race" and "tools", which between them
\* take every step of Next.
LiveInit == Init /\ scope # "identity"
LiveSpec == LiveInit /\ [][Next]_vars /\ \A i \in Invs : WF_vars(Settle(i))

TypeOK ==
    /\ \A i \in Invs : pc[i] \in {"idle", "auth", "repoGet", "getRef", "getCommit",
                                   "uploading", "tree", "commit", "updateRef",
                                   "pullCommit", "done", "failed"}
    /\ \A i \in Invs : tool[i] \in ToolNames \cup {"git_add", "none"}
    /\ staged \subseteq {"a.txt", "b.txt"}
    /\ phase \in {"starting", "serving", "exited"}
    /\ token \in {"set", "unset"}

\* ================================================================ claims
Terminal(i) == pc[i] \in {"done", "failed"}
Contains(msg, part) == \E k \in 1..Len(msg) : msg[k] = part
CallsOf(i, ops) == SelectSeq(calls[i], LAMBDA c : c.op \in ops)
RefUpdatesBy(i) == {k \in 1..Len(refLog) : refLog[k].by = i}
Reachable(sha) == \E b \in Branches : IsAncestor(sha, refs[b])
CommitInvs == {i \in Invs : tool[i] = "create_commit"}   \* the create_commit invocations

C2_NoBranchMovementBeforeDone ==
    \A i \in Invs :
        pc[i] # "done" =>
            /\ RefUpdatesBy(i) = {}
            /\ \A c \in 1..Len(commits) : commits[c].by = i => ~Reachable(c)

C2_Witness ==
    /\ ~alive
    /\ \E i \in Invs : pc[i] = "updateRef" /\ newCommit[i] # NoSha /\ ~Reachable(newCommit[i])

\* C3: a commit written by an invocation has exactly one parent, the sha
\* that invocation's getRef call returned.
C3_SingleCapturedParent ==
    \A c \in 1..Len(commits) :
        commits[c].by \in Invs =>
            LET i == commits[c].by
                reads == CallsOf(i, {"git.getRef"})
            IN  /\ Len(commits[c].parents) = 1
                /\ Len(reads) = 1
                /\ commits[c].parents[1] = reads[1].out

C3_Witness ==
    \E i \in Invs :
        /\ newCommit[i] # NoSha
        /\ commits[newCommit[i]].parents = <<refData[i]>>
        /\ \E k \in 1..Len(refLog) :
               refLog[k].by # i /\ refLog[k].ref = branch[i] /\ refLog[k].from = refData[i]

\* C4: a successful invocation with a non-empty files list reports as
\* files_changed the number of files and as file_paths the paths of the
\* files, one per file, in the order given.
C4_PayloadCountsAndPaths ==
    \A i \in CommitInvs :
        (pc[i] = "done" /\ args[i].files # <<>>) =>
            /\ result[i].files_changed = Len(args[i].files)
            /\ Len(result[i].file_paths) = Len(args[i].files)
            /\ \A k \in 1..Len(args[i].files) : result[i].file_paths[k] = args[i].files[k].path

C4_Witness ==
    \E i \in CommitInvs :
        /\ pc[i] = "done"
        /\ Len(args[i].files) = 2
        /\ args[i].files[1].path = args[i].files[2].path
        /\ result[i].file_paths = <<args[i].files[1].path, args[i].files[1].path>>
RemoteOwnerOracle(out) ==
    CASE out = <<"https:", "/", "/", "github.com", "/", "octo", "/", "r.git">> -> "octo"
      [] out = <<"git@", "github.com", ":", "bob", "/", "r.git">> -> "bob"
      [] OTHER -> Null

IdentityCalls(i) ==
    CallsOf(i, {"git config remote.origin.url", "git config user.name", "users.getAuthenticated"})

C7_BranchFallsBackToMain ==
    \A i \in CommitInvs :
        \A k \in 1..Len(calls[i]) :
            (calls[i][k].op = "repos.get" /\ calls[i][k].out = Null) =>
                /\ ~Truthy(args[i].branch)
                /\ branch[i] = "main"
                /\ IF k = Len(calls[i])
                   THEN pc[i] = "getRef" /\ error[i] = NoError
                   ELSE calls[i][k + 1].op = "git.getRef" /\ calls[i][k + 1].ref = "main"

C7_Witness ==
    \E i \in CommitInvs :
        /\ \E k \in 1..Len(calls[i]) : calls[i][k].op = "repos.get" /\ calls[i][k].out = Null
        /\ branch[i] = "main"
        /\ pc[i] = "done"

\* C8: when an invocation arrives after another one with the same
\* arguments has succeeded, and nobody else has moved that branch, the
\* commit it writes is a different commit whose one parent is the commit of
\* the earlier invocation.
C8_SecondCommitOnTopOfFirst ==
    \A i, j \in Invs :
        (/\ i \in pred[j]
         /\ pc[i] = "done"
         /\ args[j] = args[i]
         /\ newCommit[j] # NoSha
         /\ \A k \in 1..Len(refLog) : refLog[k].ref = branch[i] => refLog[k].by \in {i, j})
        => /\ newCommit[j] # newCommit[i]
           /\ commits[newCommit[j]].parents = <<newCommit[i]>>

C8_Witness ==
    \E i, j \in Invs :
        /\ i \in pred[j]
        /\ pc[i] = "done"
        /\ pc[j] = "done"
        /\ args[j] = args[i]
        /\ result[j].commit_sha # result[i].commit_sha
        /\ commits[result[j].commit_sha].parents = <<result[i].commit_sha>>

\* C9: the commit_sha of a success payload is a commit this invocation
\* wrote, is not the tip it captured, and is what this invocation's one
\* reference update set its branch to.
C9_ReturnedShaIsNewTip ==
    \A i \in CommitInvs :
        pc[i] = "done" =>
            LET sha == result[i].commit_sha
            IN  /\ sha \in 1..Len(commits)
                /\ commits[sha].by = i
                /\ sha # refData[i]
                /\ Cardinality(RefUpdatesBy(i)) = 1
                /\ \A k \in RefUpdatesBy(i) :
                       refLog[k].to = sha /\ refLog[k].ref = branch[i] /\ refLog[k].from = refData[i]

C9_Witness ==
    \E i \in CommitInvs :
        /\ pc[i] = "done"
        /\ refs[branch[i]] = result[i].commit_sha
        /\ result[i].commit_sha # refData[i]

\* The step at which a failed invocation stopped, read off what it had
\* got hold of by then.
FailedStep(i) ==
    IF ~isValidCreateCommitArgs(args[i]) THEN "validation"
    ELSE IF owner[i] = Undefined THEN "owner resolution"
    ELSE IF commitData[i] = NoSha THEN "reference read"
    ELSE IF args[i].files = <<>> THEN "empty changeset"
    ELSE IF blobs[i] = <<>> THEN "blob upload"
    ELSE IF newTree[i] = NoSha THEN "tree construction"
    ELSE IF newCommit[i] = NoSha THEN "commit construction"
    ELSE "reference update"

\* The steps a message names.
StepsNamedBy(part) ==
    CASE part = InvalidArgsMsg[1] -> {"validation"}
      [] part = OwnerMsg[1] -> {"owner resolution"}
      [] part \in {"Invalid reference data received for branch '", InvalidCommitMsg[1],
                   "Failed to get branch reference: "} -> {"reference read"}
      [] part = "Failed to create file blobs: " -> {"blob upload"}
      [] part = NoBlobsMsg[1] -> {"empty changeset"}
      [] part = InvalidTreeMsg[1] -> {"tree construction"}
      [] part \in {"Failed to create commit: ", InvalidNewCommitMsg[1]} -> {"commit construction"}
      [] part = "Failed to update branch reference: " -> {"reference update"}
      [] OTHER -> {}
StepsNamed(msg) == UNION {StepsNamedBy(msg[k]) : k \in 1..Len(msg)}

CompletePayload(r) ==
    DOMAIN r = {"status", "commit_sha", "html_url", "repository", "branch", "message",
                "files_changed", "file_paths", "timestamp"}

\* C10: an invocation that has returned has either a complete success
\* payload and no error, or no payload and one error whose message names
\* the step that failed.
C10_PayloadOrErrorNamingStep ==
    \A i \in CommitInvs :
        Terminal(i) =>
            \/ pc[i] = "done" /\ CompletePayload(result[i]) /\ error[i] = NoError
            \/ /\ pc[i] = "failed"
               /\ result[i] = NoResult
               /\ error[i] # NoError
               /\ FailedStep(i) \in StepsNamed(error[i])

LocalOps == {"git config remote.origin.url", "git config user.name"}
NetworkCalls(i) == SelectSeq(calls[i], LAMBDA c : c.op \notin LocalOps)
WriteOps == {"git.createBlob", "git.createTree", "git.createCommit", "git.updateRef"}

\* C11: a create_commit invocation whose message is empty fails with the
\* invalid-arguments error of create_commit, has issued no network call and
\* has written no commit.
C11_EmptyMessageRejected ==
    \A i \in CommitInvs :
        args[i].message = "" =>
            /\ pc[i] = "failed"
            /\ error[i] = InvalidArgsMsg
            /\ NetworkCalls(i) = <<>>
            /\ \A c \in 1..Len(commits) : commits[c].by # i

\* The shape the parameter type of each tool asks for, written out by hand.
ShapeOK(name, a) ==
    CASE name = "create_commit" ->
            /\ a.repo # Undefined
            /\ a.message # Undefined
            /\ \A k \in 1..Len(a.files) :
                   /\ DOMAIN a.files[k] = {"path", "content"}
                   /\ a.files[k].path # Undefined
                   /\ a.files[k].content # Undefined
      [] name = "pull" -> a.repo # Undefined /\ a.branch # Undefined
      [] OTHER -> a.repo # Undefined

InvalidArgumentsErrors ==
    {<<"Invalid arguments for create_commit: requires repo, message, and files array">>,
     <<"Invalid arguments for push">>,
     <<"Invalid arguments for pull">>,
     <<"Invalid arguments for git_status">>}

\* C12: an invocation of create_commit, push, pull or git_status whose
\* arguments do not have the shape the tool asks for has failed with an
\* invalid-arguments error and has issued no call at all, remote or local.
C12_BadShapeFailsBeforeAnyCall ==
    \A i \in Invs :
        (pc[i] # "idle" /\ tool[i] \in ToolNames /\ ~ShapeOK(tool[i], args[i])) =>
            /\ pc[i] = "failed"
            /\ error[i] \in InvalidArgumentsErrors
            /\ calls[i] = <<>>

\* C13: no step of a push invocation changes the references, the commits
\* or the log of reference updates of the remote, and the step by which a
\* push succeeds returns exactly message, repository, branch and timestamp.
C13_PushLeavesRemoteAlone ==
    [][\A i \in Invs :
          (tool'[i] = "push" /\ <<pc[i], calls[i]>> # <<pc'[i], calls'[i]>>)
          => /\ UNCHANGED <<refs, commits, refLog>>
             /\ CallsOf(i, WriteOps)' = <<>>
             /\ pc'[i] = "done" =>
                   /\ DOMAIN result'[i] = {"message", "repository", "branch", "timestamp"}
                   /\ error'[i] = NoError]_vars

C13_Witness ==
    \E i \in Invs :
        /\ tool[i] = "push"
        /\ pc[i] = "done"
        /\ result[i].repository = <<"octo", "/", "r">>
        /\ result[i].branch = DefaultBranch
        /\ CallsOf(i, {"repos.get"}) # <<>>
        /\ refLog = <<>>

StatusPayloadFields ==
    {"status", "repository", "current_branch", "default_branch", "ahead_by", "behind_by",
     "last_commit", "files_changed", "timestamp"}

\* C14: a git_status request with a string repo argument is not answered
\* with the unknown-tool error, and when it succeeds its payload has the
\* fields of the status payload.
C14_GitStatusServed ==
    \A i \in Invs :
        (tool[i] = "git_status" /\ args[i].repo # Undefined) =>
            /\ error[i] # <<"Unknown tool: ", "git_status">>
            /\ pc[i] = "done" => DOMAIN result[i] = StatusPayloadFields

\* C15: without the credential in the environment the process of the
\* server that takes the credential never serves: it takes no tool call
\* and no invocation ends with an error.
C15_NoServingWithoutCredential ==
    (token = "unset" /\ scope # "local") =>
        /\ phase # "serving"
        /\ \A i \in Invs : pc[i] = "idle" /\ error[i] = NoError

\* The stage of the pipeline a call belongs to.
StepRank(op) ==
    CASE op \in LocalOps \cup {"users.getAuthenticated", "repos.get"} -> 1
      [] op = "git.getRef" -> 2
      [] op = "git.getCommit" -> 3
      [] op = "git.createBlob" -> 4
      [] op = "git.createTree" -> 5
      [] op = "git.createCommit" -> 6
      [] op = "git.updateRef" -> 7

\* A call whose failure ends the invocation.
Rejected(c) ==
    \/ c.op \in {"git.getRef", "git.getCommit", "git.createTree", "git.createCommit",
                 "git.updateRef"} /\ c.out = NoSha
    \/ c.op = "users.getAuthenticated" /\ c.out = Null

UploadFailedIn(i) == \E k \in 1..Len(uploads[i]) : uploads[i][k] = FailedUpload

\* C16: the calls of a create_commit invocation are issued in the order
\* owner/branch resolution, reference read, tip-commit read, blob uploads,
\* tree creation, commit creation, reference update; only the resolution
\* and the uploads have more than one call; a rejected call is the last call
\* of its invocation, and so are the uploads when one of them failed.
C16_StepsInOrder ==
    \A i \in CommitInvs :
        /\ \A k, l \in 1..Len(calls[i]) :
               k < l => /\ StepRank(calls[i][k].op) <= StepRank(calls[i][l].op)
                        /\ StepRank(calls[i][k].op) = StepRank(calls[i][l].op)
                               => calls[i][k].op \in LocalOps \cup {"users.getAuthenticated",
                                                                    "repos.get", "git.createBlob"}
        /\ \A k \in 1..Len(calls[i]) :
               Rejected(calls[i][k]) => k = Len(calls[i]) /\ pc[i] = "failed"
        /\ UploadFailedIn(i) =>
               pc[i] = "failed" /\ calls[i][Len(calls[i])].op = "git.createBlob"

C16_Witness ==
    \E i \in CommitInvs :
        /\ pc[i] = "done"
        /\ {StepRank(calls[i][k].op) : k \in 1..Len(calls[i])} = 1..7
        /\ calls[i][1].op = "git config remote.origin.url"
        /\ calls[i][Len(calls[i])].op = "git.updateRef"

\* C17: in one create_commit invocation the reference read, the tip-commit
\* read, tree creation, commit creation and the reference update are each
\* called at most once, and createBlob at most once per entry of the files
\* list.
C17_NoStepRetried ==
    \A i \in CommitInvs :
        /\ \A op \in {"git.getRef", "git.getCommit", "git.createTree", "git.createCommit",
                      "git.updateRef"} : Len(CallsOf(i, {op})) <= 1
        /\ LET ups == CallsOf(i, {"git.createBlob"})
           IN  /\ Len(ups) <= Len(args[i].files)
               /\ \A k \in 1..Len(ups) :
                      ups[k].ref = args[i].files[k].path /\ ups[k].out = args[i].files[k].content

C17_Witness ==
    \E i \in CommitInvs :
        /\ pc[i] = "failed"
        /\ error[i] = GetRefFailedMsg(NetworkError)
        /\ Len(CallsOf(i, {"git.getRef"})) = 1
        /\ calls[i][Len(calls[i])] = Call("git.getRef", "octo", "main", NoSha)

\* C18: the commit of every create_commit invocation that returned success
\* is the tip of its branch or an ancestor of that tip.
C18_ReportedCommitsStayReachable ==
    \A i \in CommitInvs :
        pc[i] = "done" => IsAncestor(result[i].commit_sha, refs[branch[i]])

C18_Witness ==
    \E i, j \in CommitInvs :
        /\ i # j
        /\ pc[i] = "done" /\ pc[j] = "done"
        /\ branch[i] = branch[j]
        /\ i \notin pred[j] /\ j \notin pred[i]
        /\ refs[branch[i]] = result[j].commit_sha
        /\ commits[result[j].commit_sha].parents = <<result[i].commit_sha>>

\* C19: the entries of every createTree call are one per file of the files
\* list, in the order of the list, the n-th with the path of the n-th file
\* and the sha the n-th file's createBlob call returned.
C19_TreeEntriesInFilesOrder ==
    \A i \in CommitInvs :
        \A k \in 1..Len(calls[i]) :
            calls[i][k].op = "git.createTree" =>
                LET entries == calls[i][k].tree
                IN  /\ Len(entries) = Len(args[i].files)
                    /\ \A n \in 1..Len(entries) :
                           /\ entries[n].path = args[i].files[n].path
                           /\ entries[n].sha = uploads[i][n]
                           /\ entries[n].sha = BlobSha(args[i].files[n].content)

C19_Witness ==
    \E i \in CommitInvs :
        /\ CallsOf(i, {"git.createTree"}) # <<>>
        /\ arrival[i] = <<2, 1>>
        /\ args[i].files[1].path # args[i].files[2].path
        /\ args[i].files[1].content # args[i].files[2].content
        /\ CallsOf(i, {"git.createTree"})[1].tree[1].path = args[i].files[1].path

KnownOps ==
    LocalOps \cup {"users.getAuthenticated", "repos.get", "git.getRef", "git.getCommit"}
        \cup WriteOps

\* C20: when createTree has been called every upload of the invocation had
\* succeeded; when an upload has failed the invocation has failed with the
\* blob-upload error, has called neither createTree nor createCommit nor
\* updateRef, and has issued no call that deletes a blob.
C20_TreeOnlyAfterAllUploads ==
    \A i \in CommitInvs :
        /\ CallsOf(i, {"git.createTree"}) # <<>> =>
               /\ Len(uploads[i]) = Len(args[i].files)
               /\ \A k \in 1..Len(uploads[i]) : uploads[i][k] \notin {NoSha, FailedUpload}
        /\ UploadFailedIn(i) =>
               /\ pc[i] = "failed"
               /\ Head(error[i]) = "Failed to create file blobs: "
               /\ CallsOf(i, {"git.createTree", "git.createCommit", "git.updateRef"}) = <<>>
               /\ \A k \in 1..Len(calls[i]) : calls[i][k].op \in KnownOps

C20_Witness ==
    \E i \in CommitInvs :
        /\ pc[i] = "failed"
        /\ Len(uploads[i]) = 2
        /\ uploads[i][1] = BlobSha(args[i].files[1].content)
        /\ uploads[i][2] = FailedUpload
        /\ error[i] = BlobsFailedMsg(NetworkError)
        /\ calls[i][Len(calls[i])].op = "git.createBlob"

\* C21: when an upload of a create_commit invocation has failed, the error
\* the caller receives contains the path of a file whose upload failed.
C21_BlobErrorNamesPath ==
    \A i \in CommitInvs :
        (pc[i] = "failed" /\ UploadFailedIn(i)) =>
            \E k \in 1..Len(uploads[i]) :
                uploads[i][k] = FailedUpload /\ Contains(error[i], args[i].files[k].path)

RefReadFailed(i) ==
    \E k \in 1..Len(calls[i]) : calls[i][k].op = "git.getRef" /\ calls[i][k].out = NoSha

\* C22: when the reference read of a create_commit invocation gave no tip
\* for a branch the repository does not have, the invocation has failed with
\* an error whose message contains the name of the branch.
C22_MissingBranchNamed ==
    \A i \in CommitInvs :
        (RefReadFailed(i) /\ owner[i] = RepoOwner /\ branch[i] \notin Branches) =>
            /\ pc[i] = "failed"
            /\ Contains(error[i], branch[i])

\* The errors the steps of the handler throw themselves.
OwnStepErrors(i) ==
    {OwnerMsg, InvalidRefMsg(branch[i]), InvalidCommitMsg, NoBlobsMsg, InvalidTreeMsg,
     InvalidNewCommitMsg}

\* C23: when the error of a failed create_commit invocation carries the
\* text of an error a step threw itself, it is that error, with nothing put
\* in front of it or behind it.
C23_StepErrorUnchanged ==
    \A i \in CommitInvs :
        pc[i] = "failed" =>
            \A m \in OwnStepErrors(i) :
                (\A k \in 1..Len(m) : Contains(error[i], m[k])) => error[i] = m

PipelineOps == {"git.getRef", "git.getCommit"} \cup WriteOps

\* C24: a create_commit invocation reads the remote URL, the authenticated
\* principal and the default branch at most once each; every call of its
\* pipeline goes to the owner it resolved; its reference read and its
\* reference update name the branch it resolved; the reference the remote
\* moved for it is that branch; and its payload reports that owner,
\* repository and branch.
C24_OneOwnerOneBranch ==
    \A i \in CommitInvs :
        /\ \A op \in {"git config remote.origin.url", "git config user.name",
                      "users.getAuthenticated", "repos.get"} : Len(CallsOf(i, {op})) <= 1
        /\ \A k \in 1..Len(calls[i]) :
               /\ calls[i][k].op \in PipelineOps \cup {"repos.get"} => calls[i][k].owner = owner[i]
               /\ calls[i][k].op \in {"git.getRef", "git.updateRef"} => calls[i][k].ref = branch[i]
        /\ \A k \in RefUpdatesBy(i) : refLog[k].ref = branch[i]
        /\ pc[i] = "done" =>
               /\ result[i].repository = <<owner[i], "/", args[i].repo>>
               /\ result[i].branch = branch[i]

C24_Witness ==
    \E i \in CommitInvs :
        /\ pc[i] = "done"
        /\ ~Truthy(args[i].owner) /\ ~Truthy(args[i].branch)
        /\ Len(CallsOf(i, {"users.getAuthenticated"})) = 1
        /\ \A k \in 1..Len(calls[i]) :
               calls[i][k].op \in PipelineOps => calls[i][k].owner = Login
        /\ result[i].repository = <<Login, "/", "r">>

\* C25: a create_commit invocation has the owner-resolution error only
\* when it was given no owner, the remote URL and user.name gave none, and
\* its getAuthenticated call failed; a valid invocation that failed without
\* an owner failed in that way.
C25_OwnerFailureOnlyAfterAuthFails ==
    \A i \in CommitInvs :
        (\/ error[i] = OwnerMsg
         \/ pc[i] = "failed" /\ isValidCreateCommitArgs(args[i]) /\ owner[i] = Undefined)
        => LET ids == IdentityCalls(i)
           IN  /\ ~Truthy(args[i].owner)
               /\ error[i] = OwnerMsg
               /\ Len(ids) = 3
               /\ RemoteOwnerOracle(ids[1].out) = Null
               /\ ids[2].out \in {"<execSync threw>", ""}
               /\ ids[3].op = "users.getAuthenticated"
               /\ ids[3].out = Null

C25_Witness ==
    \E i \in CommitInvs :
        /\ pc[i] # "failed"
        /\ owner[i] = Login
        /\ Len(IdentityCalls(i)) = 3
        /\ IdentityCalls(i)[1].out = ExecFailed
        /\ IdentityCalls(i)[2].out = "<execSync threw>"
        /\ CallsOf(i, {"git.getRef"}) # <<>>

LastContent(files, p) ==
    LET ks == {k \in 1..Len(files) : files[k].path = p}
    IN  files[CHOOSE k \in ks : \A n \in ks : n <= k].content

\* C27: the tree of a commit a create_commit invocation wrote holds, for
\* every path of its files list, the content the list gives that path, and
\* for every other path what the tree of the tip the invocation captured
\* holds, whatever the branch points at by then.
C27_TreeIsCapturedTipPlusFiles ==
    \A c \in 1..Len(commits) :
        commits[c].by \in Invs =>
            LET i == commits[c].by
                base == TreeOf(commits[refData[i]].tree)
                tree == TreeOf(commits[c].tree)
            IN  \A p \in Paths :
                    tree[p] = IF \E k \in 1..Len(args[i].files) : args[i].files[k].path = p
                              THEN LastContent(args[i].files, p)
                              ELSE base[p]

C27_Witness ==
    \E i \in CommitInvs :
        /\ newCommit[i] # NoSha
        /\ Len(CallsOf(i, {"git.createTree"})) = 1
        /\ CallsOf(i, {"git.createTree"})[1].ref # commits[refs[branch[i]]].tree
        /\ refs[branch[i]] \notin {refData[i], newCommit[i]}
        /\ TreeOf(commits[newCommit[i]].tree)["b.txt"] = NoFile
        /\ TreeOf(commits[refs[branch[i]]].tree)["b.txt"] # NoFile

C30_GitAddStagesFiles ==
    \A i \in Invs :
        (tool[i] = "git_add" /\ args[i].repo_path = "/repo") =>
            /\ pc[i] = "done"
            /\ staged = {args[i].files[k] : k \in 1..Len(args[i].files)}
            /\ result[i] = [result |-> <<"Successfully staged ", Len(args[i].files),
                                         " file(s): ", args[i].files>>]
====
